---- MODULE Spec2Model ----
(***************************************************************************)
(* Registration orchestrator of sora2api: RegisterFlowService.register_one *)
(* (src/src/services/register_flow.py), the phone verification it drives   *)
(* (OpenAIRegister._handle_phone_verification, register_service.py) and    *)
(* the SMS lease client (GrizzlySMSService, sms_service.py).               *)
(*                                                                         *)
(* The code is entered in one of these ways, chosen in Init:               *)
(*   entry = "register_one": one call of RegisterFlowService.register_one; *)
(*   entry = "unit": a caller that holds one GrizzlySMSService and one     *)
(*     OpenAIRegister and calls their methods in any order (get_number,    *)
(*     set_ready, resend_sms, set_complete, cancel, close,                 *)
(*     _handle_phone_verification with any flags);                         *)
(*   entry = "waits": a caller that holds one GrizzlySMSService and one    *)
(*     TempMailService and calls get_number and the two                    *)
(*     wait_for_verification_code methods in any order;                    *)
(*   entry = "client": a caller that holds one GrizzlySMSService, calls    *)
(*     get_number, set_status, get_status, set_complete, cancel, close     *)
(*     and wait_for_verification_code in any order and keeps what each     *)
(*     call came back with in `pure.out`;                                  *)
(*   entry = "api_request", "extract_code", "generate_birthday",           *)
(*     "get_email_address": one call of GrizzlySMSService._api_request,    *)
(*     of TempMailService.extract_code_from_content, of                    *)
(*     OpenAIRegister._generate_birthday or of                             *)
(*     TempMailService.get_email_address on its own, with its input in     *)
(*     `pure`.                                                             *)
(*                                                                         *)
(* `world` fixes what the collaborators do: answer freely, or follow a     *)
(* script that names the calls that fail.                                  *)
(* `log` is the sequence of requests the code has sent to the outside      *)
(* (SMS provider, enrollment endpoints, persistence); a lease's status is  *)
(* read off the setStatus requests sent for its activation id.             *)
(***************************************************************************)
EXTENDS Integers, Sequences, FiniteSets, TLC

(* ------------------------------ bounds --------------------------------- *)
\* activation ids the provider can hand out in one behaviour
MaxIds == 2
\* calls the unit-level caller makes
MaxOps == 3
\* status polls that fit into one wait window (timeout / poll_interval)
WaitPolls == 2
\* longest time one status request or inbox check takes, in poll intervals
MaxDelay == 2
\* largest `retries` an API request is made with (the default is 3,
\* sms_service.py:61)
MaxRetries == 3
\* longest mail content, in pieces of text
MaxLen == 4
\* how many years after current_year a profile is submitted at the latest
MaxYearsAhead == 1
\* largest max_retries get_email_address is called with (the default is 10,
\* tempmail_service.py:43)
MaxMailTries == 3

(* --------------------------- program constants ------------------------- *)
\* HERO_SMS_STATUS, sms_service.py:12-17
READY == 1
RESEND == 3
COMPLETE == 6
CANCEL == 8
\* max_retries of the SMS wait loop, register_service.py:967
max_retries == 3
\* default sms_max_price 0.025 (register_flow.py:65), in thousandths
DefaultMaxPrice == 25
\* register_service.py:61-62
current_year == 2025
MinYears == 18
MaxYears == 40

\* Python's None for ids, numbers and prices
None == 0
NoPrice == -1

VARIABLES
  entry,    \* "register_one" | "unit" | "waits" | "api_request" |
            \* "extract_code" | "generate_birthday"
  pc,       \* where the running coroutine stands
  sms,      \* the GrizzlySMSService object (sms_service.py:45-50)
  nextId,   \* provider side: next activation id to hand out
  log,      \* requests sent so far, in order
  pv,       \* frame of _handle_phone_verification
  wt,       \* frame of wait_for_verification_code (SMS or email)
  flow,     \* frame of register_one
  faults,   \* failures of collaborators that have happened: <<task, what>>
  world,    \* what the collaborators will do (fixed for the behaviour)
  ops,      \* unit-level caller: the calls made so far, in order
  pure      \* a function called on its own: [fn, input, out]

vars == <<entry, pc, sms, nextId, log, pv, wt, flow, faults, world, ops, pure>>

(* ------------------------------ requests ------------------------------- *)
\* One outbound request.  op: "getNumber" | "setStatus" | "start" | "finish"
\* | "add_token" | "update_token"; id: activation id (setStatus); arg: the
\* status code, the maxPrice parameter, or the phone number submitted;
\* by: the code that issued it ("pv" inside _handle_phone_verification,
\* "wait" inside wait_for_verification_code, "flow" register_one itself,
\* "unit" the unit-level caller); task: the task of register_one (or the
\* call number of the unit-level caller) during which it was sent.
Req(op, id, arg, by, task) == [op |-> op, id |-> id, arg |-> arg, by |-> by, task |-> task]

\* The phone number the provider leases with activation id k.
PhoneOf(k) == 7000 + k

\* register_service.py:862  formatted_phone = f"+{phone_number}"
FormatPhone(n) == <<"+", n>>

\* Indices of the terminal status requests (COMPLETE or CANCEL) for id.
TerminalReqs(id) ==
  {i \in 1..Len(log) : log[i].op = "setStatus" /\ log[i].id = id /\ log[i].arg \in {COMPLETE, CANCEL}}

IsTerminal(id) == TerminalReqs(id) # {}

(* ----------------------- GrizzlySMSService methods --------------------- *)
\* Each method is an operator from the object `s`, the provider's response
\* `resp` and the issuer to a record [s: the object afterwards, sent: the
\* requests it sent, ret: "ok" or the error raised, val: the value returned].
Out(s, sent, ret, val) == [s |-> s, sent |-> sent, ret |-> ret, val |-> val]

\* Variant: a status request that is dropped.
set_status_dropped(s, status, resp, by, task) == Out(s, <<>>, "ok", None)

\* Variant: the request is sent whether or not there is an id.
set_status_id_unguarded(s, status, activation_id, resp, by, task) ==
  Out(s, <<Req("setStatus", IF activation_id # None THEN activation_id
                                                    ELSE s.activation_id,
               status, by, task)>>,
      IF resp = "ok" THEN "ok" ELSE "api_error", None)

\* set_status (sms_service.py:211-249), with its optional argument
\* activation_id: id = activation_id or self.activation_id (223); no
\* request without an id (224-225); BAD_KEY / NO_ACTIVATION / BAD_STATUS
\* and transport errors are raised.
set_status_id(s, status, activation_id, resp, by, task) ==
  LET id == IF activation_id # None THEN activation_id ELSE s.activation_id
  IN  IF id = None
        THEN Out(s, <<>>, "no_activation_id", None)
        ELSE Out(s, <<Req("setStatus", id, status, by, task)>>,
                 IF resp = "ok" THEN "ok" ELSE "api_error", None)

\* set_status called without activation_id, as the service itself calls
\* it (307, 318, 329, 343, 392).
set_status(s, status, resp, by, task) ==
  set_status_id(s, status, None, resp, by, task)

\* get_status (251-302) called on its own, with its optional argument
\* activation_id: id = activation_id or self.activation_id (261); no
\* request without an id (262-263); errors are raised (271-278, 300-302).
\* (The polls of wait_for_verification_code are kept in its frame `wt`.)
get_status(s, activation_id, resp, by, task) ==
  LET id == IF activation_id # None THEN activation_id ELSE s.activation_id
  IN  IF id = None
        THEN Out(s, <<>>, "no_activation_id", None)
        ELSE Out(s, <<Req("getStatus", id, None, by, task)>>,
                 IF resp = "ok" THEN "ok" ELSE "api_error", None)

\* set_ready (304-312) and resend_sms (314-323) pass set_status's error on.
set_ready(s, resp, by, task) == set_status(s, READY, resp, by, task)

resend_sms(s, resp, by, task) == set_status(s, RESEND, resp, by, task)

\* set_complete (325-337) and cancel (339-352) swallow every error.
set_complete(s, resp, by, task) ==
  LET r == set_status(s, COMPLETE, resp, by, task) IN Out(r.s, r.sent, "ok", None)

cancel(s, resp, by, task) ==
  LET r == set_status(s, CANCEL, resp, by, task) IN Out(r.s, r.sent, "ok", None)

\* close (425-436): cancel when an activation id is held, then forget it.
close(s, resp, by, task) ==
  LET r == IF s.activation_id # None THEN cancel(s, resp, by, task)
                                     ELSE Out(s, <<>>, "ok", None)
  IN Out([r.s EXCEPT !.activation_id = None, !.phone_number = None, !.service = "None"],
         r.sent, "ok", None)

\* get_number (123-209).  resp: "number" (a lease is granted), "NO_NUMBERS",
\* "WRONG_MAX_PRICE", "api_error".  max_price = NoPrice is Python's None.
get_number(s, max_price, resp, id, by, task) ==
  LET final_max_price == IF max_price # NoPrice THEN max_price ELSE s.max_price
      sent == <<Req("getNumber", None, final_max_price, by, task)>>
  IN IF resp = "number"
       THEN Out([s EXCEPT !.activation_id = id, !.phone_number = PhoneOf(id)],
                sent, "ok", PhoneOf(id))
       ELSE Out(s, sent, resp, None)

\* The methods GrizzlySMSService defines (sms_service.py:32-436).
SmsMethods ==
  {"init", "_api_request", "get_balance", "get_number", "set_status", "get_status",
   "set_ready", "resend_sms", "set_complete", "cancel", "wait_for_verification_code",
   "get_phone_number", "get_activation_id", "close"}

(* ----------------------------- collaborators -------------------------- *)
\* The collaborators (browser, mail provider, signup pages, SMS provider,
\* enrollment endpoints, persistence) either answer freely, each call
\* succeeding or failing, or follow a script: the call `what` of task
\* `task` fails if and only if <<task, what>> is in world.fail, and the SMS
\* code is there at the first status poll.  In a slow world a status
\* request or inbox check takes time; otherwise it is answered at once.
FreeWorld == [free |-> TRUE, fail |-> {}, slow |-> TRUE]

FastWorld == [free |-> TRUE, fail |-> {}, slow |-> FALSE]

Script(fail) == [free |-> FALSE, fail |-> fail, slow |-> FALSE]

Fails(task, what) == world.free \/ <<task, what>> \in world.fail

Passes(task, what) == world.free \/ <<task, what>> \notin world.fail

\* Responses the provider can give to getNumberV2: WRONG_MAX_PRICE only
\* answers a request that carries a maxPrice; no lease once ids ran out.
NumberResponses(s, max_price, task) ==
  (IF nextId <= MaxIds /\ Passes(task, "sms_api") THEN {"number"} ELSE {})
    \cup (IF Fails(task, "sms_api") \/ nextId > MaxIds
            THEN {"NO_NUMBERS", "api_error"} ELSE {})
    \cup (IF Fails(task, "sms_price")
               /\ (IF max_price # NoPrice THEN max_price ELSE s.max_price) # NoPrice
            THEN {"WRONG_MAX_PRICE"} ELSE {})

\* Answers to setStatus: accepted, or an error (BAD_STATUS, NO_ACTIVATION,
\* BAD_KEY, transport).
StatusResponses(task) ==
  (IF Passes(task, "sms_api") THEN {"ok"} ELSE {}) \cup
  (IF Fails(task, "sms_api") THEN {"error"} ELSE {})

(* -------------------------- unit-level caller -------------------------- *)
Idle == entry = "unit" /\ pc = "idle" /\ Len(ops) < MaxOps

\* The caller that only leases numbers and waits for codes.
IdleWaits == entry = "waits" /\ pc = "idle" /\ Len(ops) < MaxOps

\* The caller that holds one GrizzlySMSService, calls its methods one by
\* one and keeps what each call came back with.
IdleClient == entry = "client" /\ pc = "idle" /\ Len(ops) < MaxOps

\* The number of the call being made.
CallNo == Len(ops) + 1

Apply(r) ==
  /\ sms' = r.s
  /\ log' = log \o r.sent

U_get_number ==
  /\ Idle \/ IdleWaits \/ IdleClient
  /\ \E mp \in {NoPrice, DefaultMaxPrice} : \E resp \in NumberResponses(sms, mp, CallNo) :
       /\ Apply(get_number(sms, mp, resp, nextId, "unit", CallNo))
       /\ nextId' = IF resp = "number" THEN nextId + 1 ELSE nextId
       /\ ops' = Append(ops, IF mp = NoPrice THEN "get_number(max_price=None)"
                                              ELSE "get_number")
  /\ UNCHANGED <<entry, pure, world, pc, pv, wt, flow, faults>>

U_set_ready ==
  /\ Idle
  /\ \E resp \in StatusResponses(CallNo) : Apply(set_ready(sms, resp, "unit", CallNo))
  /\ ops' = Append(ops, "set_ready")
  /\ UNCHANGED <<entry, pure, world, pc, nextId, pv, wt, flow, faults>>

U_resend_sms ==
  /\ Idle
  /\ \E resp \in StatusResponses(CallNo) : Apply(resend_sms(sms, resp, "unit", CallNo))
  /\ ops' = Append(ops, "resend_sms")
  /\ UNCHANGED <<entry, pure, world, pc, nextId, pv, wt, flow, faults>>

U_set_complete ==
  /\ Idle
  /\ \E resp \in StatusResponses(CallNo) : Apply(set_complete(sms, resp, "unit", CallNo))
  /\ ops' = Append(ops, "set_complete")
  /\ UNCHANGED <<entry, pure, world, pc, nextId, pv, wt, flow, faults>>

U_cancel ==
  /\ Idle
  /\ \E resp \in StatusResponses(CallNo) : Apply(cancel(sms, resp, "unit", CallNo))
  /\ ops' = Append(ops, "cancel")
  /\ UNCHANGED <<entry, pure, world, pc, nextId, pv, wt, flow, faults>>

U_close ==
  /\ Idle
  /\ \E resp \in StatusResponses(CallNo) : Apply(close(sms, resp, "unit", CallNo))
  /\ ops' = Append(ops, "close")
  /\ UNCHANGED <<entry, pure, world, pc, nextId, pv, wt, flow, faults>>

(* ------------------------------- frames -------------------------------- *)
\* What a call of the client-level caller came back with: "ok" or the
\* error raised, and how many requests it sent.
NoCall == [ret |-> "none", sent |-> 0]

Kept(r) == [ret |-> r.ret, sent |-> Len(r.sent)]

\* _handle_phone_verification: its arguments, locals and, once it has
\* ended, result ("ok" or the error raised); from = Len(log) and held_id =
\* the activation id of sms_service, both at the moment of the call.
NoPv ==
  [reuse_phone |-> FALSE, set_complete |-> FALSE, task |-> 0, ret |-> "idle",
   phone |-> <<>>, retry_count |-> 0, token |-> "none", result |-> "none", from |-> 0,
   held_id |-> None, seen |-> FALSE]

\* wait_for_verification_code: which service runs it ("sms" | "email"),
\* the task it serves, result, who called it; elapsed is the loop's own
\* reading, clock - start_time, and spent the time that has passed since
\* the call, both in poll intervals.
NoWait ==
  [source |-> "none", task |-> 0, result |-> "none", ret |-> "idle",
   elapsed |-> 0, spent |-> 0]

\* register_one: binding_rule, the task i being registered, the signup
\* phase, the locals browser / register / temp_mail (0 is None, else the
\* task that created the object), whether sms_service and
\* shared_sms_service are set, remaining (327), the accounts list (tasks
\* in order), the sessions and mailboxes still open, and how it ended.
NoFlow ==
  [binding_rule |-> "none", i |-> 0, phase |-> 0, browser |-> None, register |-> None,
   temp_mail |-> None, sms_service |-> FALSE, shared_sms_service |-> FALSE,
   remaining |-> 0, accounts |-> <<>>, live |-> {}, result |-> "none", err |-> "none"]

NewSms(key, mp) ==
  [api_key |-> key, activation_id |-> None, phone_number |-> None, service |-> "dr",
   max_price |-> mp]

Fault(task, what) == faults' = faults \cup {<<task, what>>}

(* ------------------ wait_for_verification_code (354-415) --------------- *)
\* What one get_status can report (251-302): "error_timeout" is an error
\* whose text contains "timeout", "error" any other error.
\* Under a script the code is there at the first poll, unless the script
\* lets the task's SMS wait time out: then no code ever comes.
PollResponses(task) ==
  IF world.free
    THEN {"WAIT_CODE", "WAIT_RESEND", "OK", "CANCEL", "error_timeout", "error"}
    ELSE IF <<task, "sms_timeout">> \in world.fail THEN {"WAIT_CODE"} ELSE {"OK"}

\* How long one request takes (_api_request allows 30 s per attempt, three
\* attempts, sms_service.py:61-104; check_inbox 30 s, tempmail_service.py:106).
PollDelays == IF world.slow THEN 0..MaxDelay ELSE {0}

\* The clock moves on by d poll intervals.
Tick(w, d) == [w EXCEPT !.elapsed = @ + d, !.spent = @ + d]

\* Variant: the window of the previous call goes on.
Started_shared(source, task, ret) ==
  [NoWait EXCEPT !.source = source, !.task = task, !.ret = ret, !.elapsed = wt.elapsed]

\* start_time = clock at the call (371; tempmail_service.py:159).
Started(source, task, ret) ==
  [NoWait EXCEPT !.source = source, !.task = task, !.ret = ret]

\* Entering the call: without an activation id it raises at once (365-366).
\* Called with (60000, 3000): the timeout is WaitPolls poll intervals.
WaitCall(ret, task) ==
  IF sms.activation_id = None
    THEN /\ wt' = [Started("sms", task, ret) EXCEPT !.result = "no_activation_id"]
         /\ pc' = ret
    ELSE /\ wt' = Started("sms", task, ret)
         /\ pc' = "w_poll"

\* The body of one turn (375-413) in which get_status reports st: return
\* the code, ask for a resend, raise, or sleep one poll interval.
W_PollOn(st) ==
  /\ \E d \in PollDelays :
       CASE st = "OK" ->
              /\ wt' = [Tick(wt, d) EXCEPT !.result = "code"]
              /\ pc' = wt.ret
              /\ UNCHANGED <<sms, log, faults>>
         [] st = "WAIT_RESEND" ->
              /\ \E resp \in StatusResponses(wt.task) :
                   LET r == set_status(sms, RESEND, resp, "wait", wt.task) IN
                     /\ sms' = r.s
                     /\ log' = log \o r.sent
              /\ wt' = Tick(wt, d + 1)
              /\ UNCHANGED <<pc, faults>>
         [] st = "CANCEL" ->
              /\ wt' = [Tick(wt, d) EXCEPT !.result = "canceled"]
              /\ pc' = wt.ret
              /\ Fault(wt.task, "sms_canceled")
              /\ UNCHANGED <<sms, log>>
         [] st = "error" ->
              /\ wt' = [Tick(wt, d) EXCEPT !.result = "api_error"]
              /\ pc' = wt.ret
              /\ Fault(wt.task, "sms_api")
              /\ UNCHANGED <<sms, log>>
         [] OTHER ->
              /\ wt' = Tick(wt, d + 1)
              /\ UNCHANGED <<pc, sms, log, faults>>
  /\ UNCHANGED <<entry, pure, world, nextId, pv, flow, ops>>

\* One turn of the loop (374-413), entered while the clock is within the
\* timeout: get_status, which takes its time, then what the status asks for.
W_Poll ==
  /\ pc = "w_poll"
  /\ wt.elapsed < WaitPolls
  /\ \E st \in PollResponses(wt.task) : W_PollOn(st)

\* The window is used up (374, 415): "等待验证码超时".
W_Timeout ==
  /\ pc = "w_poll"
  /\ wt.elapsed >= WaitPolls
  /\ wt' = [wt EXCEPT !.result = "timeout"]
  /\ pc' = wt.ret
  /\ Fault(wt.task, "sms_timeout")
  /\ UNCHANGED <<entry, pure, world, sms, nextId, log, pv, flow, ops>>

(* ------ TempMailService.wait_for_verification_code (147-190) ----------- *)
EmailWaitCall(ret, task) ==
  /\ wt' = Started("email", task, ret)
  /\ pc' = "e_poll"

\* One turn of the loop (161-188): check_inbox, which takes its time and
\* turns every error into an empty list (102-120); a code found in a
\* message is returned, otherwise sleep one poll interval.
E_Poll ==
  /\ pc = "e_poll"
  /\ wt.elapsed < WaitPolls
  /\ \E found \in BOOLEAN, d \in PollDelays :
       IF found
         THEN /\ wt' = [Tick(wt, d) EXCEPT !.result = "code"]
              /\ pc' = wt.ret
         ELSE /\ wt' = Tick(wt, d + 1)
              /\ UNCHANGED pc
  /\ UNCHANGED <<entry, pure, world, sms, nextId, log, pv, flow, faults, ops>>

\* The window is used up (161, 190): '等待验证码超时'.
E_Timeout ==
  /\ pc = "e_poll"
  /\ wt.elapsed >= WaitPolls
  /\ wt' = [wt EXCEPT !.result = "timeout"]
  /\ pc' = wt.ret
  /\ Fault(wt.task, "email_timeout")
  /\ UNCHANGED <<entry, pure, world, sms, nextId, log, pv, flow, ops>>

(* --------------- _handle_phone_verification (790-1246) ----------------- *)
\* Variant: the call resolved to get_number.
getNumber_resolved(s, max_price, resp, id, by, task) ==
  get_number(s, max_price, resp, id, by, task)

\* sms_service.getNumber(...), as register_service.py:847, 851 and 991 call
\* it.  GrizzlySMSService defines get_number, not getNumber, and has no
\* __getattr__: the attribute lookup raises AttributeError before any
\* request is made.
getNumber(s, max_price, resp, id, by, task) ==
  IF "getNumber" \in SmsMethods
    THEN get_number(s, max_price, resp, id, by, task)
    ELSE Out(s, <<>>, "AttributeError", None)

PvRaise(err) ==
  /\ pv' = [pv EXCEPT !.result = err]
  /\ pc' = pv.ret

PvCall(reuse_phone, set_complete_, task, ret) ==
  /\ pv' = [NoPv EXCEPT !.reuse_phone = reuse_phone, !.set_complete = set_complete_,
                        !.task = task, !.ret = ret, !.from = Len(log),
                        !.held_id = sms.activation_id]
  /\ wt' = NoWait
  /\ pc' = "pv_begin"

\* 806-826: wait for the page (the load-state wait can raise), then
\* sms_service.init(), which raises on an empty API key (52-55).
PV_Begin ==
  /\ pc = "pv_begin"
  /\ \/ /\ Fails(pv.task, "page")
        /\ PvRaise("page_error")
        /\ Fault(pv.task, "page")
     \/ /\ Passes(pv.task, "page")
        /\ ~sms.api_key
        /\ PvRaise("no_api_key")
        /\ UNCHANGED faults
     \/ /\ Passes(pv.task, "page")
        /\ sms.api_key
        /\ pc' = "pv_lease"
        /\ UNCHANGED <<pv, faults>>
  /\ UNCHANGED <<entry, pure, world, sms, nextId, log, wt, flow, ops>>

\* 829-842: reuse the number the service holds and ask for a resend.
PV_Reuse ==
  /\ pc = "pv_lease"
  /\ pv.reuse_phone
  /\ IF sms.phone_number = None
       THEN /\ PvRaise("reuse_failed")
            /\ UNCHANGED <<sms, log, faults>>
       ELSE \E resp \in StatusResponses(pv.task) :
              LET r == resend_sms(sms, resp, "pv", pv.task) IN
                /\ sms' = r.s
                /\ log' = log \o r.sent
                /\ IF r.ret = "ok"
                     THEN /\ pv' = [pv EXCEPT !.phone = FormatPhone(sms.phone_number)]
                          /\ pc' = "pv_token"
                          /\ UNCHANGED faults
                     ELSE /\ PvRaise(r.ret)
                          /\ Fault(pv.task, "sms_api")
  /\ UNCHANGED <<entry, pure, world, nextId, wt, flow, ops>>

\* 843-859: request a number; when the error says the price is too low,
\* request once more with max_price=None; then set_ready.
PV_Acquire ==
  /\ pc = "pv_lease"
  /\ ~pv.reuse_phone
  /\ \E resp1 \in NumberResponses(sms, NoPrice, pv.task),
        resp2 \in NumberResponses(sms, NoPrice, pv.task),
        resp3 \in StatusResponses(pv.task) :
       LET r1 == getNumber(sms, NoPrice, resp1, nextId, "pv", pv.task)
           r2 == IF r1.ret = "WRONG_MAX_PRICE"
                   THEN LET q == getNumber(r1.s, NoPrice, resp2, nextId, "pv", pv.task)
                        IN Out(q.s, r1.sent \o q.sent, q.ret, q.val)
                   ELSE r1
           r3 == IF r2.ret = "ok"
                   THEN LET q == set_ready(r2.s, resp3, "pv", pv.task)
                        IN Out(q.s, r2.sent \o q.sent, q.ret, r2.val)
                   ELSE r2
       IN /\ sms' = r3.s
          /\ log' = log \o r3.sent
          /\ nextId' = IF r2.ret = "ok" THEN nextId + 1 ELSE nextId
          /\ IF r3.ret = "ok"
               THEN /\ pv' = [pv EXCEPT !.phone = FormatPhone(r3.val)]
                    /\ pc' = "pv_token"
                    /\ UNCHANGED faults
               ELSE /\ PvRaise(r3.ret)
                    /\ IF r3.ret = "AttributeError" THEN UNCHANGED faults
                                                    ELSE Fault(pv.task, "sms_api")
  /\ UNCHANGED <<entry, pure, world, wt, flow, ops>>

\* Variant: a missing access token is let through.
PV_Token_lenient ==
  /\ pc = "pv_token"
  /\ \/ /\ Fails(pv.task, "token")
        /\ Fault(pv.task, "token")
        /\ UNCHANGED pv
     \/ /\ Passes(pv.task, "token")
        /\ pv' = [pv EXCEPT !.token = "original"]
        /\ UNCHANGED faults
  /\ pc' = "pv_start"
  /\ UNCHANGED <<entry, pure, world, sms, nextId, log, wt, flow, ops>>

\* 864-875: session token, then access token; either may be missing.
PV_Token ==
  /\ pc = "pv_token"
  /\ \/ /\ Fails(pv.task, "token")
        /\ PvRaise("no_session_token")
        /\ Fault(pv.task, "token")
     \/ /\ Fails(pv.task, "token")
        /\ PvRaise("no_access_token")
        /\ Fault(pv.task, "token")
     \/ /\ Passes(pv.task, "token")
        /\ pv' = [pv EXCEPT !.token = "original"]
        /\ pc' = "pv_start"
        /\ UNCHANGED faults
  /\ UNCHANGED <<entry, pure, world, sms, nextId, log, wt, flow, ops>>

\* Variant: the wait begins without a start request.
PV_Start_silent ==
  /\ pc = "pv_start"
  /\ WaitCall("pv_waited", pv.task)
  /\ UNCHANGED <<entry, pure, world, sms, nextId, flow, ops, log, pv, faults>>

\* 877-962: the start-enrollment request with the formatted number.
PV_Start ==
  /\ pc = "pv_start"
  /\ log' = Append(log, Req("start", None, pv.phone, "pv", pv.task))
  /\ \/ /\ Fails(pv.task, "start")
        /\ PvRaise("start_failed")
        /\ Fault(pv.task, "start")
        /\ UNCHANGED wt
     \/ /\ Passes(pv.task, "start")
        /\ WaitCall("pv_waited", pv.task)
        /\ UNCHANGED <<pv, faults>>
  /\ UNCHANGED <<entry, pure, world, sms, nextId, flow, ops>>

\* Variant: every failed wait is counted as a timeout and the number is
\* canceled.
PV_Waited_counts_all ==
  /\ pc = "pv_waited"
  /\ IF wt.result = "code"
       THEN /\ pc' = "pv_finish"
            /\ UNCHANGED <<pv, sms, log>>
       ELSE \E respC \in StatusResponses(pv.task) :
              LET c == cancel(sms, respC, "pv", pv.task) IN
                /\ sms' = c.s
                /\ log' = log \o c.sent
                /\ pv' = [pv EXCEPT !.retry_count = @ + 1, !.result = "verification_timeout"]
                /\ pc' = pv.ret
  /\ UNCHANGED <<entry, pure, world, flow, ops, wt, nextId, faults>>

\* 970-1082, after wait_for_verification_code(60000, 3000) has ended.
\* A code: on to finish.  A timeout error: count it; below max_retries
\* cancel the number, request a new one with max_price=None, set_ready,
\* reload, start again and wait again; at max_retries raise.  Any other
\* error is raised as it is.
PV_Waited ==
  /\ pc = "pv_waited"
  /\ CASE wt.result = "code" ->
            /\ pc' = "pv_finish"
            /\ UNCHANGED <<pv, wt, sms, log, nextId, faults>>
       [] wt.result = "timeout" /\ pv.retry_count + 1 < max_retries ->
            \E respC \in StatusResponses(pv.task),
               respN \in NumberResponses(sms, NoPrice, pv.task),
               respR \in StatusResponses(pv.task),
               startOk \in {b \in BOOLEAN : IF b THEN Passes(pv.task, "start")
                                                  ELSE Fails(pv.task, "start")} :
              LET c  == cancel(sms, respC, "pv", pv.task)
                  n  == getNumber(c.s, NoPrice, respN, nextId, "pv", pv.task)
                  rd == IF n.ret = "ok" THEN set_ready(n.s, respR, "pv", pv.task)
                                        ELSE Out(n.s, <<>>, n.ret, None)
                  st == IF rd.ret = "ok"
                          THEN <<Req("start", None, FormatPhone(n.val), "pv", pv.task)>>
                          ELSE <<>>
                  err == IF rd.ret # "ok" THEN rd.ret
                         ELSE IF ~startOk THEN "start_failed" ELSE "ok"
              IN /\ sms' = rd.s
                 /\ log' = log \o c.sent \o n.sent \o rd.sent \o st
                 /\ nextId' = IF n.ret = "ok" THEN nextId + 1 ELSE nextId
                 /\ IF err = "ok"
                      THEN /\ pv' = [pv EXCEPT !.retry_count = @ + 1,
                                               !.phone = FormatPhone(n.val)]
                           /\ WaitCall("pv_waited", pv.task)
                           /\ UNCHANGED faults
                      ELSE /\ pv' = [pv EXCEPT !.retry_count = @ + 1, !.result = err]
                           /\ pc' = pv.ret
                           /\ IF err = "AttributeError" THEN UNCHANGED <<wt, faults>>
                              ELSE /\ Fault(pv.task, IF err = "start_failed" THEN "start" ELSE "sms_api")
                                   /\ UNCHANGED wt
       [] wt.result = "timeout" /\ pv.retry_count + 1 >= max_retries ->
            /\ pv' = [pv EXCEPT !.retry_count = @ + 1, !.result = "verification_timeout"]
            /\ pc' = pv.ret
            /\ UNCHANGED <<wt, sms, log, nextId, faults>>
       [] OTHER ->
            /\ PvRaise(wt.result)
            /\ UNCHANGED <<wt, sms, log, nextId, faults>>
  /\ UNCHANGED <<entry, pure, world, flow, ops>>

\* 1087-1170: the finish-enrollment request with the number and the code.
PV_Finish ==
  /\ pc = "pv_finish"
  /\ log' = Append(log, Req("finish", None, pv.phone, "pv", pv.task))
  /\ \/ /\ Fails(pv.task, "finish")
        /\ PvRaise("finish_failed")
        /\ Fault(pv.task, "finish")
     \/ /\ Passes(pv.task, "finish")
        /\ pc' = "pv_complete"
        /\ UNCHANGED <<pv, faults>>
  /\ UNCHANGED <<entry, pure, world, sms, nextId, wt, flow, ops>>

\* Variant: set_complete is never called.
PV_Complete_never ==
  /\ pc = "pv_complete"
  /\ pc' = "pv_watch"
  /\ UNCHANGED <<entry, pure, world, nextId, pv, wt, flow, faults, ops, sms, log>>

\* Variant: set_complete whatever the caller asked for.
PV_Complete_always ==
  /\ pc = "pv_complete"
  /\ \E resp \in StatusResponses(pv.task) :
       LET r == set_complete(sms, resp, "pv", pv.task) IN
         /\ sms' = r.s
         /\ log' = log \o r.sent
  /\ pc' = "pv_watch"
  /\ UNCHANGED <<entry, pure, world, nextId, pv, wt, flow, faults, ops>>

\* 1172-1176: set_complete only when the caller asked for it.
PV_Complete ==
  /\ pc = "pv_complete"
  /\ IF pv.set_complete
       THEN \E resp \in StatusResponses(pv.task) :
              LET r == set_complete(sms, resp, "pv", pv.task) IN
                /\ sms' = r.s
                /\ log' = log \o r.sent
       ELSE UNCHANGED <<sms, log>>
  /\ pc' = "pv_watch"
  /\ UNCHANGED <<entry, pure, world, nextId, pv, wt, flow, faults, ops>>

\* Variant: the token obtained before the start request is returned
\* whatever the listener has stored.
PV_Watch_original ==
  /\ pc = "pv_watch"
  /\ \E seen \in BOOLEAN :
       pv' = [pv EXCEPT !.seen = seen, !.result = "ok"]
  /\ pc' = pv.ret
  /\ UNCHANGED <<entry, pure, world, sms, nextId, log, wt, flow, faults, ops>>

\* 1178-1246: reload, watch api/auth/session for at most 15 s, and return
\* the token seen there, else the one obtained before the start request.
\* seen: the listener has stored a token (latest_access_token, 1180-1194)
\* by the time the result is built (1232).
PV_Watch ==
  /\ pc = "pv_watch"
  /\ \E seen \in BOOLEAN :
       pv' = [pv EXCEPT !.seen = seen, !.token = IF seen THEN "latest" ELSE @,
                        !.result = "ok"]
  /\ pc' = pv.ret
  /\ UNCHANGED <<entry, pure, world, sms, nextId, log, wt, flow, faults, ops>>

(* -------------------------- unit-level caller -------------------------- *)
U_handle_phone_verification ==
  /\ Idle
  /\ \E reuse_phone \in BOOLEAN, set_complete_ \in BOOLEAN :
       PvCall(reuse_phone, set_complete_, CallNo, "idle")
  /\ ops' = Append(ops, "handle_phone_verification")
  /\ UNCHANGED <<entry, pure, world, sms, nextId, log, flow, faults>>

\* One call `name` of the client-level caller, which came back with r.
K_Call(name, r) ==
  /\ Apply(r)
  /\ pure' = [pure EXCEPT !.out = Kept(r)]
  /\ ops' = Append(ops, name)
  /\ UNCHANGED <<entry, world, pc, nextId, pv, wt, flow, faults>>

\* The activation ids a caller can pass: none, or one the provider uses.
PassedIds == {None} \cup 1..MaxIds

K_set_status ==
  /\ IdleClient
  /\ \E status \in {READY, CANCEL}, id \in PassedIds, resp \in StatusResponses(CallNo) :
       K_Call(IF id = None THEN "set_status" ELSE "set_status(activation_id)",
              set_status_id(sms, status, id, resp, "unit", CallNo))

K_get_status ==
  /\ IdleClient
  /\ \E id \in PassedIds, resp \in StatusResponses(CallNo) :
       K_Call(IF id = None THEN "get_status" ELSE "get_status(activation_id)",
              get_status(sms, id, resp, "unit", CallNo))

K_set_complete ==
  /\ IdleClient
  /\ \E resp \in StatusResponses(CallNo) :
       K_Call("set_complete", set_complete(sms, resp, "unit", CallNo))

K_cancel ==
  /\ IdleClient
  /\ \E resp \in StatusResponses(CallNo) :
       K_Call("cancel", cancel(sms, resp, "unit", CallNo))

K_close ==
  /\ IdleClient
  /\ \E resp \in StatusResponses(CallNo) :
       K_Call("close", close(sms, resp, "unit", CallNo))

\* The two waits called directly.
U_wait_for_verification_code ==
  /\ IdleWaits \/ IdleClient
  /\ WaitCall("idle", CallNo)
  /\ ops' = Append(ops, "wait_for_verification_code")
  /\ UNCHANGED <<entry, pure, world, sms, nextId, log, pv, flow, faults>>

U_email_wait_for_verification_code ==
  /\ IdleWaits
  /\ EmailWaitCall("idle", CallNo)
  /\ ops' = Append(ops, "email.wait_for_verification_code")
  /\ UNCHANGED <<entry, pure, world, sms, nextId, log, pv, flow, faults>>

(* ------------- GrizzlySMSService._api_request (61-104) ----------------- *)
\* What one attempt ends in: the response text ("ok"), or an exception
\* with this message (a transport error, or "HTTP <status>: <text>" for a
\* response that is not ok, 82-83).
AttemptOutcomes ==
  {"ok", "Connection reset", "HTTP 500: Internal Server Error",
   "HTTP 504: Gateway Timeout"}

\* 91-92: the lower-cased message holds one of "network", "connection",
\* "timeout", "econnrefused", "etimedout".
is_network_error(error) ==
  error \in {"Connection reset", "HTTP 504: Gateway Timeout"}

Backoff_flat(attempt) == 1000

\* 99: wait_time = attempt * 1000.
Backoff(attempt) == attempt * 1000

\* 69-104: the loop over attempt = 1..retries; outs[k] is what attempt k
\* ends in, sleeps the waits made so far.
RECURSIVE api_attempts(_, _, _, _)
api_attempts(outs, retries, attempt, sleeps) ==
  IF attempt > retries
    THEN [attempts |-> attempt - 1, sleeps |-> sleeps, result |-> "raise",
          error |-> "API request failed"]
    ELSE IF outs[attempt] = "ok"
      THEN [attempts |-> attempt, sleeps |-> sleeps, result |-> "return",
            error |-> "none"]
      ELSE IF attempt = retries \/ ~is_network_error(outs[attempt])
        THEN [attempts |-> attempt, sleeps |-> sleeps, result |-> "raise",
              error |-> outs[attempt]]
        ELSE api_attempts(outs, retries, attempt + 1,
                          Append(sleeps, Backoff(attempt)))

api_request(outs, retries) == api_attempts(outs, retries, 1, <<>>)

\* _api_request(params, retries) against a provider whose answers to the
\* attempts are outs.
InitApiRequest ==
  /\ entry = "api_request"
  /\ pure \in {[fn |-> "api_request", input |-> [outs |-> o, retries |-> r],
                out |-> [none |-> TRUE]] :
                 o \in [1..MaxRetries -> AttemptOutcomes], r \in 1..MaxRetries}

P_api_request ==
  /\ entry = "api_request"
  /\ pc = "call"
  /\ pure' = [pure EXCEPT !.out = api_request(pure.input.outs, pure.input.retries)]
  /\ pc' = "returned"
  /\ UNCHANGED <<entry, world, sms, nextId, log, pv, wt, flow, faults, ops>>

(* ------ TempMailService.extract_code_from_content (122-145) ----------- *)
\* A mail content is a sequence of pieces of text: the markers "code is "
\* and "verify:", the characters ">", "<", " " and "x" (a letter), and
\* two runs of six digits.
Blocks == {"111111", "222222"}

Pieces == {"code is ", "verify:", ">", "<", " ", "x"} \cup Blocks

\* Whether the piece starts, or ends, with a word character (for \b).
StartsWord(x) == x \in {"code is ", "verify:", "x"} \cup Blocks

EndsWord(x) == x \in {"x"} \cup Blocks

code_patterns_digits_first == <<"digits", "code is", "verify", "tag">>

\* 128-138: the pattern list, in its order.  "code is" is the first
\* entry, "verify" the fourth (entries 2, 3 and 5 to 7 have its shape: a
\* marker, separators, six digits), "tag" the eighth and "digits" the
\* last, \b(\d{6})\b.
code_patterns == <<"code is", "verify", "tag", "digits">>

\* The pieces from position i on that are spaces, up to the first other.
RECURSIVE SkipSpaces(_, _)
SkipSpaces(c, i) ==
  IF i <= Len(c) /\ c[i] = " " THEN SkipSpaces(c, i + 1) ELSE i

IsBlockAt(c, i) == i <= Len(c) /\ c[i] \in Blocks

\* What pattern p captures when matched with its first character at
\* piece i of the content, "None" when it does not match there.  A run
\* of six digits followed by more digits still gives the marker patterns
\* their six digits; "tag" and "digits" need the run to end there.
MatchAt(p, c, i) ==
  CASE p = "code is" ->
         IF c[i] = "code is " /\ IsBlockAt(c, i + 1) THEN c[i + 1] ELSE "None"
    [] p = "verify" ->
         LET j == SkipSpaces(c, i + 1)
         IN IF c[i] = "verify:" /\ IsBlockAt(c, j) THEN c[j] ELSE "None"
    [] p = "tag" ->
         LET j == SkipSpaces(c, i + 1)
             k == SkipSpaces(c, j + 1)
         IN IF c[i] = ">" /\ IsBlockAt(c, j) /\ k <= Len(c) /\ c[k] = "<"
              THEN c[j] ELSE "None"
    [] OTHER ->
         IF /\ IsBlockAt(c, i)
            /\ (i = 1 \/ ~EndsWord(c[i - 1]))
            /\ (i = Len(c) \/ ~StartsWord(c[i + 1]))
           THEN c[i] ELSE "None"

\* re.search: the match that starts leftmost.
Search(p, c) ==
  LET S == {i \in 1..Len(c) : MatchAt(p, c, i) # "None"}
  IN IF S = {} THEN "None"
     ELSE MatchAt(p, c, CHOOSE i \in S : \A j \in S : i <= j)

\* 140-145: the capture of the first pattern of the list that matches.
RECURSIVE FirstMatch(_, _)
FirstMatch(c, k) ==
  IF k > Len(code_patterns) THEN "None"
  ELSE IF Search(code_patterns[k], c) # "None" THEN Search(code_patterns[k], c)
  ELSE FirstMatch(c, k + 1)

extract_code_from_content(content) ==
  IF content = <<>> THEN "None" ELSE FirstMatch(content, 1)

Contents == UNION {[1..n -> Pieces] : n \in 0..MaxLen}

InitExtractCode ==
  /\ entry = "extract_code"
  /\ pure \in {[fn |-> "extract_code_from_content", input |-> [content |-> c],
                out |-> [none |-> TRUE]] : c \in Contents}

P_extract_code_from_content ==
  /\ entry = "extract_code"
  /\ pc = "call"
  /\ pure' = [pure EXCEPT !.out = [code |-> extract_code_from_content(pure.input.content)]]
  /\ pc' = "returned"
  /\ UNCHANGED <<entry, world, sms, nextId, log, pv, wt, flow, faults, ops>>

(* ---------- OpenAIRegister._generate_birthday (59-65) ------------------ *)
\* The dates on which the profile is submitted: the first and the last
\* day of current_year and of the years after it.
SubmitDates ==
  {[year |-> y, month |-> md[1], day |-> md[2]] :
     y \in current_year..(current_year + MaxYearsAhead),
     md \in {<<1, 1>>, <<12, 31>>}}

\* 61-65: the three random draws.
generate_birthday ==
  {[year |-> current_year - r, month |-> m, day |-> d] :
     r \in MinYears..MaxYears, m \in 1..12, d \in 1..28}

InitGenerateBirthday ==
  /\ entry = "generate_birthday"
  /\ pure \in {[fn |-> "generate_birthday", input |-> [today |-> t],
                out |-> [none |-> TRUE]] : t \in SubmitDates}

\* _enter_name_and_birthday (459) on the day pure.input.today.
P_generate_birthday ==
  /\ entry = "generate_birthday"
  /\ pc = "call"
  /\ \E b \in generate_birthday : pure' = [pure EXCEPT !.out = b]
  /\ pc' = "returned"
  /\ UNCHANGED <<entry, world, sms, nextId, log, pv, wt, flow, faults, ops>>

(* ------------- TempMailService.get_email_address (11-90) ------------- *)
\* An address is a sequence of characters; the empty sequence stands for
\* None and for the empty string.
NoEmail == <<>>

\* 15
BLOCKED_SUFFIXES == {<<".", "t", "o", "p">>}

\* str.lower, on the letters the addresses below are written with
LowerChar(c) ==
  CASE c = "T" -> "t" [] c = "O" -> "o" [] c = "P" -> "p" [] c = "A" -> "a"
    [] OTHER -> c

lower(s) == [i \in 1..Len(s) |-> LowerChar(s[i])]

\* str.endswith
endswith(s, suffix) ==
  /\ Len(s) >= Len(suffix)
  /\ SubSeq(s, Len(s) - Len(suffix) + 1, Len(s)) = suffix

\* 27-34
is_email_supported(email) ==
  /\ email # NoEmail
  /\ \A suffix \in BLOCKED_SUFFIXES : ~endswith(lower(email), suffix)

\* The addresses the mail provider hands out.
Addresses ==
  { <<"a", "@", "b", ".", "i", "o">>,
    <<"c", "@", "d", ".", "i", "o">>,
    <<"a", "@", "b", ".", "t", "o", "p">>,
    <<"A", "@", "B", ".", "T", "O", "P">>,
    <<"t", "o", "p">>,
    NoEmail }

\* What one create request (57-60) comes back with: code "0" and data
\* with an address (69-70), an HTTP error (62-64) or an API error (82).
CreateResponses ==
  {[kind |-> "ok", email |-> e] : e \in Addresses}
    \cup {[kind |-> k, email |-> NoEmail] : k \in {"http", "api"}}

\* 25: the service as constructed, before the loop.
NoMail ==
  [email |-> NoEmail, requests |-> 0, sleeps |-> 0, result |-> "none",
   value |-> NoEmail]

\* Variant: the address is stored before its suffix is checked.
RECURSIVE email_attempts_stores_first(_, _, _)
email_attempts_stores_first(input, attempt, st) ==
  IF attempt > input.max_retries
    THEN [st EXCEPT !.result = "raised"]
    ELSE
      LET r == input.responses[attempt]
          sent == [st EXCEPT !.requests = @ + 1]
      IN  IF r.kind = "ok"
            THEN IF ~is_email_supported(r.email)
                   THEN email_attempts_stores_first(input, attempt + 1,
                                                    [sent EXCEPT !.email = r.email])
                   ELSE [sent EXCEPT !.email = r.email, !.result = "returned",
                                     !.value = r.email]
            ELSE IF attempt = input.max_retries
                   THEN [sent EXCEPT !.result = "raised"]
                   ELSE email_attempts_stores_first(input, attempt + 1,
                                                    [sent EXCEPT !.sleeps = @ + 1])

\* 55-88: the attempts from `attempt` on. A create request is sent (57);
\* an address that is not supported is skipped (73-75); a supported one is
\* stored and returned (77-80); an error ends the call on the last
\* attempt (84-86) and is followed by a sleep otherwise (87-88); 90 after
\* the loop.
RECURSIVE email_attempts(_, _, _)
email_attempts(input, attempt, st) ==
  IF attempt > input.max_retries
    THEN [st EXCEPT !.result = "raised"]
    ELSE
      LET r == input.responses[attempt]
          sent == [st EXCEPT !.requests = @ + 1]
      IN  IF r.kind = "ok"
            THEN IF ~is_email_supported(r.email)
                   THEN email_attempts(input, attempt + 1, sent)
                   ELSE [sent EXCEPT !.email = r.email, !.result = "returned",
                                     !.value = r.email]
            ELSE IF attempt = input.max_retries
                   THEN [sent EXCEPT !.result = "raised"]
                   ELSE email_attempts(input, attempt + 1,
                                       [sent EXCEPT !.sleeps = @ + 1])

\* 43-90
get_email_address(input) == email_attempts(input, 1, NoMail)

InitGetEmailAddress ==
  /\ entry = "get_email_address"
  /\ \E n \in 1..MaxMailTries :
       pure \in {[fn |-> "get_email_address",
                  input |-> [max_retries |-> n, responses |-> rs],
                  out |-> NoMail] : rs \in [1..n -> CreateResponses]}

\* One call on a TempMailService as constructed (register_flow.py:182-205,
\* 340-354).
P_get_email_address ==
  /\ entry = "get_email_address"
  /\ pc = "call"
  /\ pure' = [pure EXCEPT !.out = get_email_address(pure.input)]
  /\ pc' = "returned"
  /\ UNCHANGED <<entry, world, sms, nextId, log, pv, wt, flow, faults, ops>>

(* ------------------ register_one (register_flow.py:67-519) ------------- *)
BindingRules == {"1:1", "1:3", "other"}

\* Variant: the exception is dropped where it is raised.
FlowRaise_dropped(f, err) ==
  /\ flow' = f
  /\ UNCHANGED pc

FlowRaise_loop(f, err) ==
  /\ flow' = [f EXCEPT !.err = err]
  /\ pc' = "f_loop_except"

\* An exception in task 1 reaches the outer handler (472); in the loop of
\* the 1:3 rule it reaches the handler of the loop body (438).
FlowRaise(f, err) ==
  /\ flow' = [f EXCEPT !.err = err]
  /\ pc' = IF f.i <= 1 THEN "f_except" ELSE "f_loop_except"

Closed_keeps_mail(f) ==
  f.live \ {<<"register", f.register>>, <<"browser", f.browser>>}

\* What closing the locals register, browser and temp_mail leaves open.
Closed(f) ==
  f.live \ {<<"register", f.register>>, <<"browser", f.browser>>, <<"temp_mail", f.temp_mail>>}

F_Launch_twice ==
  /\ pc = "f_launch"
  /\ Passes(1, "launch")
  /\ flow' = [flow EXCEPT !.browser = 1, !.live = @ \cup {<<"browser", 1>>, <<"browser", 2>>}]
  /\ pc' = "f_init"
  /\ UNCHANGED <<entry, pure, world, sms, nextId, log, pv, wt, ops, faults>>

\* 99-163: launch the browser.
F_Launch ==
  /\ pc = "f_launch"
  /\ \/ /\ Fails(1, "launch")
        /\ FlowRaise(flow, "launch_failed")
        /\ Fault(1, "launch")
     \/ /\ Passes(1, "launch")
        /\ flow' = [flow EXCEPT !.browser = 1, !.live = @ \cup {<<"browser", 1>>}]
        /\ pc' = "f_init"
        /\ UNCHANGED faults
  /\ UNCHANGED <<entry, pure, world, sms, nextId, log, pv, wt, ops>>

\* 180-201: TempMailService and its init, OpenAIRegister and its init (the
\* browser context), then the GrizzlySMSService object.
F_Init ==
  /\ pc = "f_init"
  /\ \/ /\ Fails(1, "init")
        /\ FlowRaise([flow EXCEPT !.temp_mail = 1], "init_failed")
        /\ Fault(1, "init")
     \/ /\ Fails(1, "init")
        /\ FlowRaise([flow EXCEPT !.temp_mail = 1, !.register = 1], "init_failed")
        /\ Fault(1, "init")
     \/ /\ Passes(1, "init")
        /\ flow' = [flow EXCEPT !.temp_mail = 1, !.register = 1, !.sms_service = TRUE,
                                !.live = @ \cup {<<"register", 1>>}]
        /\ pc' = "f_email"
        /\ UNCHANGED faults
  /\ UNCHANGED <<entry, pure, world, sms, nextId, log, pv, wt, ops>>

\* 203-206 and 354: temp_mail.get_email_address().
F_GetEmail ==
  /\ pc = "f_email"
  /\ \/ /\ Fails(flow.i, "email")
        /\ FlowRaise(flow, "email_failed")
        /\ Fault(flow.i, "email")
     \/ /\ Passes(flow.i, "email")
        /\ flow' = [flow EXCEPT !.phase = 1, !.live = @ \cup {<<"temp_mail", flow.i>>}]
        /\ pc' = "f_phase"
        /\ UNCHANGED faults
  /\ UNCHANGED <<entry, pure, world, sms, nextId, log, pv, wt, ops>>

PhaseFault(k) ==
  CASE k = 1 -> "phase1" [] k = 2 -> "phase2" [] k = 3 -> "phase3"
    [] k = 4 -> "phase4" [] OTHER -> "phase5"

\* The phase's own step, its email code (phase 4) and its rate-limit
\* check (phases 2 to 5) all went through.
PhasePasses ==
  /\ Passes(flow.i, PhaseFault(flow.phase))
  /\ flow.phase = 4 => Passes(flow.i, "email_timeout")
  /\ flow.phase >= 2 => Passes(flow.i, "rate_limit")

\* OpenAIRegister.register (register_service.py:594-645): phase k of the
\* signup (1 sign-up button, 2 email, 3 password, 4 email code, 5 name and
\* birthday); after phases 2 to 5 the rate-limit check.  Phase 4 first
\* awaits the email code, which can time out.
F_Phase ==
  /\ pc = "f_phase"
  /\ \/ /\ Fails(flow.i, PhaseFault(flow.phase))
        /\ FlowRaise(flow, "phase_failed")
        /\ Fault(flow.i, PhaseFault(flow.phase))
     \/ /\ flow.phase = 4
        /\ Fails(flow.i, "email_timeout")
        /\ FlowRaise(flow, "email_code_timeout")
        /\ Fault(flow.i, "email_timeout")
     \/ /\ flow.phase >= 2
        /\ Fails(flow.i, "rate_limit")
        /\ FlowRaise(flow, "rate_limit")
        /\ Fault(flow.i, "rate_limit")
     \/ /\ flow.phase < 5
        /\ PhasePasses
        /\ flow' = [flow EXCEPT !.phase = @ + 1]
        /\ UNCHANGED <<pc, faults>>
     \/ /\ flow.phase = 5
        /\ PhasePasses
        /\ pc' = "f_registered"
        /\ UNCHANGED <<flow, faults>>
  /\ UNCHANGED <<entry, pure, world, sms, nextId, log, pv, wt, ops>>

\* Variant: a signup that reports failure is carried on.
F_Registered_lenient ==
  /\ pc = "f_registered"
  /\ \/ /\ Fails(flow.i, "signup")
        /\ Fault(flow.i, "signup")
     \/ /\ Passes(flow.i, "signup")
        /\ UNCHANGED faults
  /\ pc' = "f_onboard"
  /\ UNCHANGED <<entry, pure, world, sms, nextId, log, pv, wt, ops, flow>>

\* register_service.py:647-686 and register_flow.py:223-227 / 363-365:
\* register() returns whether the final page is the main page; False is
\* turned into an exception.
F_Registered ==
  /\ pc = "f_registered"
  /\ \/ /\ Fails(flow.i, "signup")
        /\ FlowRaise(flow, "register_false")
        /\ Fault(flow.i, "signup")
     \/ /\ Passes(flow.i, "signup")
        /\ pc' = "f_onboard"
        /\ UNCHANGED <<flow, faults>>
  /\ UNCHANGED <<entry, pure, world, sms, nextId, log, pv, wt, ops>>

\* 231-237: for the first task a failing onboarding is logged and ignored;
\* 367: in the loop it is not caught, so it ends the task.
F_Onboard ==
  /\ pc = "f_onboard"
  /\ \/ /\ Passes(flow.i, "onboarding")
        /\ pc' = "f_call_pv"
        /\ UNCHANGED <<flow, faults>>
     \/ /\ Fails(flow.i, "onboarding")
        /\ Fault(flow.i, "onboarding")
        /\ IF flow.i = 1
             THEN pc' = "f_call_pv" /\ UNCHANGED flow
             ELSE FlowRaise(flow, "onboarding_failed")
  /\ UNCHANGED <<entry, pure, world, sms, nextId, log, pv, wt, ops>>

\* 239-248: the first task requests a number and completes it only under
\* the 1:1 rule; 369-377: later tasks reuse the number and only the last
\* one ((i + 1) == remaining, i counting from 0) completes it.
F_CallPV ==
  /\ pc = "f_call_pv"
  /\ IF flow.i = 1
       THEN PvCall(FALSE, flow.binding_rule = "1:1", 1, "f_after_pv")
       ELSE PvCall(TRUE, (flow.i - 2) + 1 = flow.remaining, flow.i, "f_after_pv")
  /\ UNCHANGED <<entry, pure, world, sms, nextId, log, flow, faults, ops>>

\* Variant: whatever the phone verification ended in, go on to persist.
F_AfterPV_lenient ==
  /\ pc = "f_after_pv"
  /\ pc' = "f_persist"
  /\ UNCHANGED <<entry, pure, world, sms, nextId, log, pv, wt, faults, ops, flow>>

\* 250-254 / 379-383: an exception of the phone verification propagates;
\* a result without accessToken is an error.
F_AfterPV ==
  /\ pc = "f_after_pv"
  /\ IF pv.result # "ok"
       THEN FlowRaise(flow, pv.result)
       ELSE IF pv.token = "none"
              THEN FlowRaise(flow, "no_access_token")
              ELSE pc' = "f_persist" /\ UNCHANGED flow
  /\ UNCHANGED <<entry, pure, world, sms, nextId, log, pv, wt, faults, ops>>

PersistOutcomes(task) ==
  (IF Passes(task, "exists") /\ Passes(task, "persist") THEN {"added"} ELSE {}) \cup
  (IF Fails(task, "exists") /\ Passes(task, "persist") THEN {"updated"} ELSE {}) \cup
  (IF Fails(task, "persist")
     THEN {"exists_not_found", "update_failed", "add_failed"} ELSE {})

\* 256-328 / 385-437: add_token; when it reports that the account exists,
\* update the record found for the email; then the account joins the
\* list.  After the first account the 1:3 rule moves sms_service to
\* shared_sms_service and starts the loop over the remaining accounts.
F_Persist ==
  /\ pc = "f_persist"
  /\ \E outcome \in PersistOutcomes(flow.i) :
       LET add == Req("add_token", None, None, "flow", flow.i)
           upd == Req("update_token", None, None, "flow", flow.i)
           f1  == [flow EXCEPT !.accounts = Append(@, flow.i)]
       IN CASE outcome = "added" \/ outcome = "updated" ->
                 /\ log' = log \o (IF outcome = "added" THEN <<add>> ELSE <<add, upd>>)
                 /\ IF outcome = "added" THEN UNCHANGED faults ELSE Fault(flow.i, "exists")
                 /\ IF flow.i = 1
                      THEN IF flow.binding_rule = "1:3"
                             THEN /\ flow' = [f1 EXCEPT !.shared_sms_service = TRUE,
                                                        !.sms_service = FALSE,
                                                        !.remaining = 3 - Len(f1.accounts),
                                                        !.i = 2]
                                  /\ pc' = "f_loop"
                             ELSE /\ flow' = f1
                                  /\ pc' = "f_return"
                      ELSE IF (flow.i - 2) + 1 < flow.remaining
                             THEN /\ flow' = [f1 EXCEPT !.i = @ + 1]
                                  /\ pc' = "f_loop"
                             ELSE /\ flow' = f1
                                  /\ pc' = "f_after_loop"
            [] outcome = "update_failed" ->
                 /\ log' = log \o <<add, upd>>
                 /\ FlowRaise(flow, "persist_failed")
                 /\ Fault(flow.i, "persist")
            [] OTHER ->
                 /\ log' = log \o <<add>>
                 /\ FlowRaise(flow, "persist_failed")
                 /\ Fault(flow.i, "persist")
  /\ UNCHANGED <<entry, pure, world, sms, nextId, pv, wt, ops>>

\* 330-348: close the previous task's session, browser and mailbox, then
\* launch a browser and create the services of the next task (the SMS
\* service is kept).
F_Loop ==
  /\ pc = "f_loop"
  /\ \/ /\ Fails(flow.i, "close")
        /\ FlowRaise([flow EXCEPT !.live = @ \ {<<"register", flow.register>>}], "close_failed")
        /\ Fault(flow.i, "close")
     \/ /\ Passes(flow.i, "close")
        /\ Fails(flow.i, "launch")
        /\ FlowRaise([flow EXCEPT !.live = Closed(flow)], "launch_failed")
        /\ Fault(flow.i, "launch")
     \/ /\ Passes(flow.i, "close")
        /\ Passes(flow.i, "launch")
        /\ Fails(flow.i, "init")
        /\ FlowRaise([flow EXCEPT !.live = Closed(flow) \cup {<<"browser", flow.i>>},
                                  !.browser = flow.i, !.temp_mail = flow.i], "init_failed")
        /\ Fault(flow.i, "init")
     \/ /\ Passes(flow.i, "close")
        /\ Passes(flow.i, "launch")
        /\ Passes(flow.i, "init")
        /\ flow' = [flow EXCEPT !.live = Closed(flow) \cup {<<"browser", flow.i>>,
                                                             <<"register", flow.i>>},
                                !.browser = flow.i, !.temp_mail = flow.i,
                                !.register = flow.i]
        /\ pc' = "f_email"
        /\ UNCHANGED faults
  /\ UNCHANGED <<entry, pure, world, sms, nextId, log, pv, wt, ops>>

\* 438-446: a task of the loop failed: close the shared SMS service, break.
F_LoopExcept ==
  /\ pc = "f_loop_except"
  /\ IF flow.shared_sms_service
       THEN \E resp \in StatusResponses(flow.i) : Apply(close(sms, resp, "flow", flow.i))
       ELSE UNCHANGED <<sms, log>>
  /\ pc' = "f_after_loop"
  /\ UNCHANGED <<entry, pure, world, nextId, pv, wt, flow, faults, ops>>

\* 448-462: after the loop the shared SMS service is closed, whether the
\* three accounts were reached or not.
F_AfterLoop ==
  /\ pc = "f_after_loop"
  /\ IF flow.shared_sms_service
       THEN \E resp \in StatusResponses(flow.i) : Apply(close(sms, resp, "flow", flow.i))
       ELSE UNCHANGED <<sms, log>>
  /\ flow' = [flow EXCEPT !.shared_sms_service = FALSE]
  /\ pc' = "f_return"
  /\ UNCHANGED <<entry, pure, world, nextId, pv, wt, faults, ops>>

\* 464-470: return {success, accounts, count}.
F_Return ==
  /\ pc = "f_return"
  /\ flow' = [flow EXCEPT !.result = "returned"]
  /\ pc' = "f_finally"
  /\ UNCHANGED <<entry, pure, world, sms, nextId, log, pv, wt, faults, ops>>

\* 250-470 run only after a phone verification has returned a result.
F_Continue ==
  /\ entry = "register_one"
  /\ \/ F_AfterPV
     \/ F_Persist
     \/ F_Loop
     \/ F_LoopExcept
     \/ F_AfterLoop
     \/ F_Return

\* Variant: the outer handler closes everything and returns what there is.
F_Except_swallows ==
  /\ pc = "f_except"
  /\ IF flow.sms_service
       THEN \E resp \in StatusResponses(flow.i) : Apply(close(sms, resp, "flow", flow.i))
       ELSE UNCHANGED <<sms, log>>
  /\ flow' = [flow EXCEPT !.live = Closed(flow), !.result = "returned"]
  /\ pc' = "f_finally"
  /\ UNCHANGED <<entry, pure, world, nextId, pv, wt, faults, ops>>

\* Variant: a close awaited by the outer handler never answers.
F_Except_hangs ==
  /\ pc = "f_except"
  /\ pc' = "f_except"
  /\ UNCHANGED <<entry, pure, world, nextId, pv, wt, flow, faults, ops, sms, log>>

\* 472-495: the outer handler closes register, browser, temp_mail and,
\* when the local sms_service is set, the SMS service; then re-raises.
F_Except ==
  /\ pc = "f_except"
  /\ IF flow.sms_service
       THEN \E resp \in StatusResponses(flow.i) : Apply(close(sms, resp, "flow", flow.i))
       ELSE UNCHANGED <<sms, log>>
  /\ flow' = [flow EXCEPT !.live = Closed(flow), !.result = "raised"]
  /\ pc' = "f_finally"
  /\ UNCHANGED <<entry, pure, world, nextId, pv, wt, faults, ops>>

\* 496-519: finally closes register, browser, temp_mail again and the SMS
\* service when sms_service is set and still holds an activation id.
F_Finally ==
  /\ pc = "f_finally"
  /\ IF flow.sms_service /\ sms.activation_id # None
       THEN \E resp \in StatusResponses(flow.i) : Apply(close(sms, resp, "flow", flow.i))
       ELSE UNCHANGED <<sms, log>>
  /\ flow' = [flow EXCEPT !.live = Closed(flow)]
  /\ pc' = "done"
  /\ UNCHANGED <<entry, pure, world, nextId, pv, wt, faults, ops>>

\* register_one(country_code, service_code, max_price, binding_rule, proxy)
\* on a fresh RegisterFlowService: the SMS API key is whatever the service
\* was built with, max_price is never None (91, 63-65).
\* The scripted worlds: nothing fails; only the password submission
\* (phase 3) of the second task fails; only the onboarding of the second
\* task fails; the email of the first task is already on file; only the
\* closing of the first task's session before the second task fails.
Scripts ==
  {Script({}), Script({<<2, "phase3">>}), Script({<<2, "onboarding">>}),
   Script({<<1, "exists">>}), Script({<<2, "close">>})}

InitRegisterOne ==
  /\ entry = "register_one"
  /\ world \in {FreeWorld} \cup Scripts
  /\ pc = "f_launch"
  /\ sms \in {NewSms(key, DefaultMaxPrice) : key \in BOOLEAN}
  /\ flow \in {[NoFlow EXCEPT !.binding_rule = b, !.i = 1] : b \in BindingRules}

\* A fresh GrizzlySMSService (35-50) in the hands of the unit-level caller.
InitUnit ==
  /\ \/ entry = "unit" /\ world = FastWorld
     \/ entry = "waits" /\ world = FreeWorld
  /\ pc = "idle"
  /\ sms \in {NewSms(key, mp) : key \in BOOLEAN, mp \in {NoPrice, DefaultMaxPrice}}
  /\ flow = NoFlow

\* No function is called on its own.
NoPure == [fn |-> "none", input |-> [none |-> TRUE], out |-> [none |-> TRUE]]

\* A function called on its own, with its input; nothing else exists.
InitPure ==
  /\ pc = "call"
  /\ world = FastWorld
  /\ sms = NewSms(TRUE, NoPrice)
  /\ flow = NoFlow
  /\ \/ InitApiRequest \/ InitExtractCode \/ InitGenerateBirthday
     \/ InitGetEmailAddress

\* A fresh GrizzlySMSService (35-50) in the hands of the client-level
\* caller, which has made no call yet.
InitClient ==
  /\ entry = "client"
  /\ world = FastWorld
  /\ pc = "idle"
  /\ sms \in {NewSms(key, mp) : key \in BOOLEAN, mp \in {NoPrice, DefaultMaxPrice}}
  /\ flow = NoFlow
  /\ pure = [fn |-> "client", input |-> [none |-> TRUE], out |-> NoCall]

Init ==
  /\ \/ (InitRegisterOne \/ InitUnit) /\ pure = NoPure
     \/ InitPure
     \/ InitClient
  /\ nextId = 1
  /\ log = <<>>
  /\ pv = NoPv
  /\ wt = NoWait
  /\ faults = {}
  /\ ops = <<>>

Next ==
  \/ U_get_number
  \/ U_set_ready
  \/ U_resend_sms
  \/ U_set_complete
  \/ U_cancel
  \/ U_close
  \/ U_handle_phone_verification
  \/ U_wait_for_verification_code
  \/ U_email_wait_for_verification_code
  \/ W_Poll
  \/ W_Timeout
  \/ E_Poll
  \/ E_Timeout
  \/ PV_Begin
  \/ PV_Reuse
  \/ PV_Acquire
  \/ PV_Token
  \/ PV_Start
  \/ PV_Waited
  \/ PV_Finish
  \/ PV_Complete
  \/ PV_Watch
  \/ F_Launch
  \/ F_Init
  \/ F_GetEmail
  \/ F_Phase
  \/ F_Registered
  \/ F_Onboard
  \/ F_CallPV
  \/ F_Continue
  \/ F_Except
  \/ F_Finally
  \/ P_api_request
  \/ P_extract_code_from_content
  \/ P_generate_birthday
  \/ P_get_email_address
  \/ K_set_status
  \/ K_get_status
  \/ K_set_complete
  \/ K_cancel
  \/ K_close

Spec == Init /\ [][Next]_vars

\* The event loop runs the one coroutine there is whenever it can go on,
\* and every external call answers (with a result or an error).
LiveSpec == Init /\ [][Next]_vars /\ WF_vars(Next)

(* ------------------------------ properties ----------------------------- *)
\* Indices of the requests of one kind.
Reqs(op) == {i \in DOMAIN log : log[i].op = op}

StatusReqs(status) ==
  {i \in DOMAIN log : log[i].op = "setStatus" /\ log[i].arg = status}

\* The requests the phone verification in `pv` has sent, itself or through
\* wait_for_verification_code, in order.
SentByPv(r) == r.by \in {"pv", "wait"} /\ r.task = pv.task

PvLog == SelectSeq(SubSeq(log, pv.from + 1, Len(log)), SentByPv)

PvCalled == pv.task # 0

PvEnded == PvCalled /\ pv.result # "none"

IsTerminalReq(r) == r.op = "setStatus" /\ r.arg \in {COMPLETE, CANCEL}

RunEnded == entry = "register_one" /\ pc = "done"

\* C1: a 1:1 run of register_one in which no collaborator fails (email
\* lease obtained, the five signup phases succeed, the SMS code is there at
\* the first status poll) requests exactly one phone number, calls
\* set_complete exactly once and returns a result with one account.
C1_ScenarioA ==
  (RunEnded /\ flow.binding_rule = "1:1" /\ sms.api_key /\ world = Script({}))
    => /\ Cardinality(Reqs("getNumber")) = 1
       /\ Cardinality(StatusReqs(COMPLETE)) = 1
       /\ flow.result = "returned"
       /\ Len(flow.accounts) = 1

\* C4: a 1:3 run in which nothing fails but the password submission of
\* task 2 returns a result holding exactly the account of task 1, leaves
\* the shared lease CANCELED without COMPLETE ever requested, and never
\* starts task 3.
C4_ScenarioC ==
  (RunEnded /\ flow.binding_rule = "1:3" /\ sms.api_key
     /\ world = Script({<<2, "phase3">>}))
    => /\ flow.result = "returned"
       /\ flow.accounts = <<1>>
       /\ StatusReqs(COMPLETE) = {}
       /\ StatusReqs(CANCEL) # {}
       /\ flow.i = 2

\* C5: a phone verification that ends after an SMS wait timed out, no
\* code having arrived and nothing else having failed in the task, ends
\* with the phone-verification-timeout error (so: only after the third
\* wait), and the task hands no account to persistence.
C5_TimeoutAfterThreeWaits ==
  (/\ PvEnded
   /\ wt.result = "timeout"
   /\ {f \in faults : f[1] = pv.task} = {<<pv.task, "sms_timeout">>})
    => /\ pv.result = "verification_timeout"
       /\ pv.retry_count = max_retries
       /\ \A i \in Reqs("add_token") : log[i].task # pv.task

\* C7 as stated: the phone verification of a non-final task (one called
\* with set_complete = False) sends no COMPLETE and no CANCEL request.
C7_NoTerminalFromNonFinal ==
  (PvCalled /\ ~pv.set_complete)
    => \A i \in DOMAIN PvLog : ~IsTerminalReq(PvLog[i])

\* C7 amended: the phone verification of a non-final task never sends
\* COMPLETE; the only terminal request it sends is the CANCEL of the number
\* it holds, once, after an SMS wait of that verification has timed out.
C7_NonFinalCancelsOnlyOnTimeout ==
  (PvCalled /\ ~pv.set_complete)
    => /\ \A i \in DOMAIN PvLog : IsTerminalReq(PvLog[i]) =>
            /\ PvLog[i] = Req("setStatus", pv.held_id, CANCEL, "pv", pv.task)
            /\ <<pv.task, "sms_timeout">> \in faults
            /\ pv.retry_count >= 1
       /\ Cardinality({i \in DOMAIN PvLog : IsTerminalReq(PvLog[i])}) <= 1

C7_Witness ==
  /\ PvCalled /\ ~pv.set_complete /\ pv.reuse_phone
  /\ \E i \in DOMAIN PvLog : IsTerminalReq(PvLog[i])

C9_TerminalIsNoOp ==
  [][(/\ entry = "unit"
      /\ Len(ops') = Len(ops) + 1
      /\ ops'[Len(ops')] \in {"set_complete", "cancel", "close"}
      /\ sms.activation_id # None
      /\ IsTerminal(sms.activation_id))
       => log' = log]_vars

\* C10: a phone verification called with reuse_phone = True while the
\* lease the service holds is already COMPLETED or CANCELED sends no resend
\* and no start-enrollment request, and fails with the not-reusable error.
C10_TerminalLeaseNotReusable ==
  (/\ PvCalled /\ pv.reuse_phone /\ pv.held_id # None
   /\ \E i \in TerminalReqs(pv.held_id) : i <= pv.from)
    => /\ \A i \in DOMAIN PvLog :
            /\ PvLog[i].op # "start"
            /\ ~(PvLog[i].op = "setStatus" /\ PvLog[i].arg = RESEND)
       /\ pv.result \in {"none", "page_error", "no_api_key", "reuse_failed"}

\* C11: a number request made with max_price=None (the retry after the
\* provider found the price ceiling too low, and every re-acquisition after
\* an SMS timeout) goes out without a maxPrice parameter.
C11_RetryCarriesNoCeiling ==
  [][(/\ entry = "unit"
      /\ ops' = Append(ops, "get_number(max_price=None)"))
       => /\ Len(log') = Len(log) + 1
          /\ log'[Len(log')].op = "getNumber"
          /\ log'[Len(log')].arg = NoPrice]_vars

\* How many of the phone verification's requests satisfy a test.
PvCount(Test(_)) == Cardinality({i \in DOMAIN PvLog : Test(PvLog[i])})

IsCancelReq(r) == r.op = "setStatus" /\ r.arg = CANCEL

IsReadyReq(r) == r.op = "setStatus" /\ r.arg = READY

IsNumberReq(r) == r.op = "getNumber"

IsStartReq(r) == r.op = "start"

\* Nothing but SMS waits timing out has gone wrong in the task of `pv`.
OnlySmsTimeouts == {f \in faults : f[1] = pv.task} = {<<pv.task, "sms_timeout">>}

\* C12: within one phone verification the code is awaited at most
\* max_retries = 3 times; once k < 3 waits have timed out (and nothing else
\* has failed) the verification has canceled k numbers, requested k fresh
\* ones, signaled READY for each and sent the start request k + 1 times.
C12_EachTimeoutReacquires ==
  /\ PvCalled => pv.retry_count <= max_retries
  /\ (PvCalled /\ OnlySmsTimeouts /\ pv.retry_count >= 1 /\ pv.retry_count < max_retries)
       => /\ PvCount(IsCancelReq) = pv.retry_count
          /\ PvCount(IsNumberReq) = pv.retry_count
          /\ PvCount(IsReadyReq) >= pv.retry_count
          /\ PvCount(IsStartReq) = pv.retry_count + 1

WaitEnded == wt.source # "none" /\ wt.result # "none"

\* C13: a call of wait_for_verification_code (SMS or email) has returned
\* or failed by the time timeout + one poll interval has passed since it
\* was called.
C13_BoundedWait == WaitEnded => wt.spent <= WaitPolls + 1

\* C14: every call of wait_for_verification_code polls for the full
\* timeout before it gives up, also when an earlier call has timed out: a
\* call that ends with the timeout error has spent at least the timeout
\* since it was itself called.
C14_FreshWindow ==
  (WaitEnded /\ wt.result = "timeout") => wt.spent >= WaitPolls

C14_Witness ==
  /\ WaitEnded /\ wt.source = "sms" /\ wt.result = "timeout"
  /\ \E k \in 1..(wt.task - 1) : <<k, "sms_timeout">> \in faults

\* C15 as stated, its last part: the caller of an SMS wait that has begun
\* to poll only ever sees a code, a timeout failure or a cancel failure.
C15_CallerSeesCodeTimeoutOrCancel ==
  (WaitEnded /\ wt.source = "sms" /\ wt.result # "no_activation_id")
    => wt.result \in {"code", "timeout", "canceled"}

\* C15 amended: a turn of the SMS wait in which the provider reports WAIT_RESEND
\* sends one RESEND request for the activation held and goes on polling,
\* whatever the answer to that request: the wait has not ended and no
\* failure has been passed on.
C15_ResendIsTransparent ==
  [][(pc = "w_poll" /\ wt.elapsed < WaitPolls /\ W_PollOn("WAIT_RESEND"))
       => /\ log' = Append(log, Req("setStatus", sms.activation_id, RESEND, "wait", wt.task))
          /\ pc' = "w_poll"
          /\ wt'.result = "none"
          /\ faults' = faults]_vars

C15_Witness ==
  /\ WaitEnded /\ wt.source = "sms" /\ wt.result = "code"
  /\ \E i \in DOMAIN log :
       log[i] = Req("setStatus", sms.activation_id, RESEND, "wait", wt.task)

\* C16: once the rate-limit marker has been detected after a signup phase
\* of a task, the signup of that task is over: register_one is in its
\* exception handling with that error, the phase counter stays where the
\* marker was found (phases 2 to 5), and no request for a phone number, no
\* resend and no enrollment request is ever sent for the task.
C16_RateLimitEndsSignup ==
  \A k \in 1..3 :
    <<k, "rate_limit">> \in faults =>
      /\ flow.i = k
      /\ flow.err = "rate_limit"
      /\ flow.phase \in 2..5
      /\ pc \in {"f_except", "f_loop_except", "f_after_loop", "f_return", "f_finally", "done"}
      /\ \A i \in DOMAIN log : log[i].task = k => log[i].by = "flow"
      /\ <<k, PhaseFault(flow.phase)>> \notin faults

C16_Witness ==
  /\ RunEnded
  /\ <<1, "rate_limit">> \in faults
  /\ flow.phase = 2

\* C17: a 1:3 run in which nothing fails but the onboarding of task 2
\* still takes task 2 through its phone verification and persists its
\* account.
C17_OnboardingFailureDoesNotAbort ==
  (RunEnded /\ flow.binding_rule = "1:3" /\ sms.api_key
     /\ world = Script({<<2, "onboarding">>}))
    => /\ \E i \in DOMAIN log : log[i].by = "pv" /\ log[i].task = 2
       /\ \E i \in DOMAIN flow.accounts : flow.accounts[i] = 2

\* C18: when register_one has ended, by returning or by raising, no
\* browser session, browser context or email lease opened during the run
\* is still live.
C18_NothingLiveAtExit ==
  (entry = "register_one" /\ pc = "done") => flow.live = {}

\* A run that opened a browser and leased a mailbox, failed later and
\* has ended.
C18_Witness ==
  /\ entry = "register_one"
  /\ pc = "done"
  /\ flow.result = "raised"
  /\ flow.browser # None
  /\ flow.phase >= 1
  /\ flow.live = {}

LiveOf(kind) == {x \in flow.live : x[1] = kind}

FailedBatch ==
  /\ entry = "register_one"
  /\ pc = "done"
  /\ flow.binding_rule = "1:3"
  /\ flow.err # "none"

\* The accounts of the tasks before task k, in order.
AccountsBefore(k) == [j \in 1..(k - 1) |-> j]

NoLaterTask ==
  /\ \A i \in DOMAIN log : log[i].task <= flow.i
  /\ \A x \in faults : x[1] <= flow.i

\* C20 as stated: a 1:3 run in which a task failed returns, without
\* raising, the accounts of the tasks that succeeded before it, and
\* attempts no later task.
C20_FailureReturnsPartialList ==
  FailedBatch
    => /\ flow.result = "returned"
       /\ flow.accounts = AccountsBefore(flow.i)
       /\ NoLaterTask

\* C20, amended: when the first task fails register_one raises and there
\* is no result; when a later task fails it returns the accounts of the
\* tasks before it, in order; in both cases no later task is attempted.
C20_FirstFailureRaises ==
  FailedBatch
    => /\ flow.result = (IF flow.i = 1 THEN "raised" ELSE "returned")
       /\ flow.accounts = AccountsBefore(flow.i)
       /\ NoLaterTask

\* A 1:3 run whose first task failed after its signup was started.
C20_Witness ==
  /\ FailedBatch
  /\ flow.i = 1
  /\ flow.phase >= 2
  /\ flow.result = "raised"

\* C21: a 1:1 run in which nothing fails but add_token, which reports
\* that the email of the task is already on file, updates the existing
\* record and returns a result holding that account.
C21_ExistingAccountIsUpdated ==
  (RunEnded /\ flow.binding_rule = "1:1" /\ sms.api_key
     /\ world = Script({<<1, "exists">>}))
    => /\ Reqs("update_token") # {}
       /\ flow.result = "returned"
       /\ flow.accounts = <<1>>

\* C22: a phone verification that returns a result does so after its
\* finish request, and the access token of the result is the one seen on
\* api/auth/session when one was seen, and otherwise the one obtained
\* before the start request.
C22_LatestTokenPreferred ==
  (PvEnded /\ pv.result = "ok")
    => /\ \E i \in DOMAIN PvLog : PvLog[i].op = "finish"
       /\ pv.token = (IF pv.seen THEN "latest" ELSE "original")

\* A phone verification that returned the token seen on api/auth/session.
C22_Witness ==
  PvEnded /\ pv.result = "ok" /\ pv.seen /\ pv.token = "latest"

\* C23: a phone verification never returns a result without an access
\* token; when the session token or the access token cannot be obtained
\* it raises before the start request, and register_one makes no
\* persistence call for a task whose phone verification did not return a
\* token.
C23_NoResultWithoutToken ==
  /\ (PvEnded /\ pv.result = "ok") => pv.token \in {"original", "latest"}
  /\ (PvEnded /\ <<pv.task, "token">> \in faults /\ pv.token = "none")
       => /\ pv.result \in {"no_session_token", "no_access_token"}
          /\ \A i \in DOMAIN PvLog : PvLog[i].op \notin {"start", "finish"}
  /\ \A i \in Reqs("add_token") : <<log[i].task, "token">> \notin faults

\* A phone verification that failed because no access token could be
\* obtained.
C23_Witness ==
  PvEnded /\ pv.result = "no_access_token" /\ <<pv.task, "token">> \in faults

\* C24: the first time the wait for the email code of a task times out,
\* the task is not failed: it goes on by leasing a fresh email address.
C24_EmailTimeoutRotates ==
  [][(/\ entry = "register_one"
      /\ <<flow.i, "email_timeout">> \notin faults
      /\ <<flow.i, "email_timeout">> \in faults')
       => /\ pc' = "f_email"
          /\ flow'.err = "none"]_vars

(* ----------------------- functions called alone ----------------------- *)
Returned(fn) == pure.fn = fn /\ pc = "returned"

\* The attempt at which _api_request stops: the first one, up to retries,
\* that succeeds or fails with an error that is not a network error; the
\* last one when there is none.
StopsAt(outs, retries) ==
  LET S == {k \in 1..retries : outs[k] = "ok" \/ ~is_network_error(outs[k])}
  IN IF S = {} THEN retries ELSE CHOOSE k \in S : \A j \in S : k <= j

\* C25: _api_request makes at most `retries` attempts; every failed
\* attempt k before the one it stops at failed with a network error and
\* was followed by a wait of k * 1000 ms; an error that is not a network
\* error stops it at once; when it raises, it raises the error of the
\* attempt it stopped at.
C25_BoundedLinearBackoff ==
  Returned("api_request")
    => LET outs == pure.input.outs
           retries == pure.input.retries
           out == pure.out
       IN /\ out.attempts <= retries
          /\ out.attempts = StopsAt(outs, retries)
          /\ out.sleeps = [k \in 1..(out.attempts - 1) |-> k * 1000]
          /\ \A k \in 1..(out.attempts - 1) : is_network_error(outs[k])
          /\ out.result = (IF outs[out.attempts] = "ok" THEN "return" ELSE "raise")
          /\ out.result = "raise" => out.error = outs[out.attempts]

\* Three attempts that all failed with a network error: two waits, then
\* the last error is raised.
C25_Witness ==
  /\ Returned("api_request")
  /\ pure.input.retries = 3
  /\ pure.out.attempts = 3
  /\ pure.out.sleeps = <<1000, 2000>>
  /\ pure.out.result = "raise"
  /\ pure.out.error = "HTTP 504: Gateway Timeout"

MarkerPatterns == {"code is", "verify", "tag"}

Matches(p, c) == \E i \in 1..Len(c) : MatchAt(p, c, i) # "None"

\* C26: extract_code_from_content returns nothing for an empty content
\* and for a content without six digits; when a marker pattern matches
\* it returns the capture of the marker pattern that comes first in the
\* list, wherever the matches stand in the text; it returns a free-
\* standing run of six digits only when no marker pattern matches.
C26_PatternPriority ==
  Returned("extract_code_from_content")
    => LET c == pure.input.content
           code == pure.out.code
       IN /\ c = <<>> => code = "None"
          /\ (\A i \in 1..Len(c) : c[i] \notin Blocks) => code = "None"
          /\ code # "None" => \E i \in 1..Len(c) : c[i] = code
          /\ Matches("code is", c) => code = Search("code is", c)
          /\ (~Matches("code is", c) /\ Matches("verify", c))
               => code = Search("verify", c)
          /\ (~Matches("code is", c) /\ ~Matches("verify", c) /\ Matches("tag", c))
               => code = Search("tag", c)
          /\ (\A p \in MarkerPatterns : ~Matches(p, c)) => code = Search("digits", c)

\* "111111 code is 222222": the marker wins over the free-standing run
\* that comes earlier in the text.
C26_Witness ==
  /\ Returned("extract_code_from_content")
  /\ pure.input.content = <<"111111", " ", "code is ", "222222">>
  /\ pure.out.code = "222222"

\* Full years between the birthdate b and the date t.
AgeOn(b, t) ==
  (t.year - b.year)
    - (IF t.month < b.month \/ (t.month = b.month /\ t.day < b.day) THEN 1 ELSE 0)

\* C27: the birthdate generated for the profile is, on the day the
\* profile is submitted, that of a person of 18 to 40 full years.
C27_AgeBetween18And40 ==
  Returned("generate_birthday")
    => /\ AgeOn(pure.out, pure.input.today) >= 18
       /\ AgeOn(pure.out, pure.input.today) <= 40

\* C28: a 1:3 run in which nothing fails but a release operation, the
\* closing of the first task's session before the second task starts,
\* returns what the run without that failure returns: the three accounts.
C28_ReleaseFailureKeepsResult ==
  (RunEnded /\ flow.binding_rule = "1:3" /\ sms.api_key
     /\ world = Script({<<2, "close">>}))
    => /\ flow.result = "returned"
       /\ flow.accounts = <<1, 2, 3>>

\* The tasks whose add_token (or the update that stands in for it) went
\* through.
PersistedTasks ==
  {k \in 1..3 : /\ \E i \in Reqs("add_token") : log[i].task = k
                /\ <<k, "persist">> \notin faults}

IsCompleteReq(r) == r.op = "setStatus" /\ r.arg = COMPLETE

\* The phone verification has ended and its caller has done nothing since.
PvJustEnded == PvEnded /\ pc = pv.ret /\ (entry = "unit" => Len(ops) = pv.task)

\* C30: a phone verification requests COMPLETE only when set_complete is
\* true, and then after the code was received and its finish request
\* succeeded; one that returns a result with set_complete true has
\* requested it; one that returns a result with set_complete false
\* leaves the service with the activation id and the number it had.
C30_CompleteIffAskedAndFinished ==
  PvCalled
    => /\ \A i \in DOMAIN PvLog :
            IsCompleteReq(PvLog[i])
              => /\ pv.set_complete
                 /\ wt.result = "code"
                 /\ <<pv.task, "finish">> \notin faults
                 /\ \E j \in 1..(i - 1) : PvLog[j].op = "finish"
       /\ (PvEnded /\ pv.result = "ok" /\ pv.set_complete)
            => PvCount(IsCompleteReq) = 1
       /\ (PvJustEnded /\ pv.result = "ok" /\ ~pv.set_complete)
            => /\ sms.activation_id = pv.held_id
               /\ sms.activation_id # None
               /\ FormatPhone(sms.phone_number) = pv.phone

\* A phone verification called with set_complete true that returned a
\* result and requested COMPLETE.
C30_Witness ==
  /\ PvJustEnded
  /\ pv.result = "ok"
  /\ pv.set_complete
  /\ PvCount(IsCompleteReq) = 1

\* The positions of PvLog before i that hold a request passing Test.
Before(i, Test(_)) == {j \in 1..(i - 1) : Test(PvLog[j])}

Last(S) == CHOOSE j \in S : \A k \in S : k <= j

\* C31: within a phone verification, a start request that follows the
\* acquisition of a number has a READY request between the two; the SMS
\* code is awaited only after a start request, one per wait; a finish
\* request comes only after a code was received and carries the number
\* of the most recent start request.
C31_StepsInOrder ==
  PvCalled
    => /\ \A i \in DOMAIN PvLog :
            (IsStartReq(PvLog[i]) /\ Before(i, IsNumberReq) # {})
              => \E k \in Before(i, IsReadyReq) : k > Last(Before(i, IsNumberReq))
       /\ (entry # "waits" /\ wt.source = "sms" /\ wt.result # "no_activation_id")
            => PvCount(IsStartReq) >= 1
       /\ (entry # "waits" /\ pc = "w_poll")
            => /\ pv.result = "none"
               /\ PvCount(IsStartReq) = pv.retry_count + 1
       /\ \A i \in DOMAIN PvLog :
            PvLog[i].op = "finish"
              => /\ wt.result = "code"
                 /\ Before(i, IsStartReq) # {}
                 /\ PvLog[Last(Before(i, IsStartReq))].arg = PvLog[i].arg

\* A phone verification that sent start, received the code and sent
\* finish.
C31_Witness ==
  /\ PvEnded
  /\ pv.result = "ok"
  /\ \E i \in DOMAIN PvLog : PvLog[i].op = "finish"
  /\ PvCount(IsStartReq) = 1

SignupFaults ==
  {"phase1", "phase2", "phase3", "phase4", "phase5", "email_timeout",
   "rate_limit", "signup"}

SignupErrors == {"phase_failed", "email_code_timeout", "rate_limit", "register_false"}

IsSmsReq(r) == r.op \in {"getNumber", "setStatus", "getStatus"}

\* C32: in a run of register_one the phone verification of a task is
\* entered only when the five signup phases of the task went through and
\* the signup reported success; the wait for the email code can only time
\* out in phase 4, after the password phase; a task whose signup failed
\* has no phone verification and no request to the SMS provider.
C32_SignupBeforePhone ==
  entry = "register_one"
    => /\ (PvCalled /\ pv.task = flow.i)
            => /\ flow.phase = 5
               /\ \A w \in SignupFaults : <<pv.task, w>> \notin faults
       /\ \A i \in DOMAIN log :
            (log[i].by \in {"pv", "wait"} \/ IsSmsReq(log[i]))
              => \A w \in SignupFaults : <<log[i].task, w>> \notin faults
       /\ \A k \in 1..3 :
            <<k, "email_timeout">> \in faults
              => /\ flow.i = k /\ flow.phase = 4
                 /\ \A w \in {"phase1", "phase2", "phase3"} : <<k, w>> \notin faults
       /\ flow.err \in SignupErrors
            => /\ pv.task # flow.i
               /\ \A i \in DOMAIN log : log[i].task = flow.i => ~IsSmsReq(log[i])

\* The first task of a run has finished its signup and its phone
\* verification is about to ask for a number.
C32_Witness ==
  /\ entry = "register_one"
  /\ pc = "pv_lease"
  /\ pv.task = 1
  /\ flow.phase = 5

\* C34: when the wait for the SMS code has ended because the provider
\* reported the activation as canceled, the phone verification raises
\* that error as it is: it does not count a timeout, sends no request
\* (no cancel, no new number) and does not wait again.
C34_CanceledIsNotRetried ==
  [][(entry # "waits" /\ pc = "pv_waited" /\ wt.result = "canceled")
       => /\ pv'.result = "canceled"
          /\ pv'.retry_count = pv.retry_count
          /\ log' = log
          /\ sms' = sms
          /\ pc' = pv.ret]_vars

\* A phone verification that ended because the activation was canceled
\* while the code was awaited.
C34_Witness ==
  /\ PvEnded
  /\ wt.result = "canceled"
  /\ pv.result = "canceled"
  /\ <<pv.task, "sms_canceled">> \in faults

\* No call is under way: the unit-level caller is between calls,
\* register_one has ended, the function called on its own has returned.
AtRest == pc \in {"idle", "done", "returned"}

\* C35: every call that is under way ends: a run of register_one reaches
\* its end (by return or by raise), and so do a phone verification and a
\* wait for a code called on their own.
C35_EveryCallEnds == (~AtRest) ~> AtRest

\* A 1:3 run of register_one that went as far as its phone verification
\* and has ended.
C35_Witness ==
  /\ entry = "register_one"
  /\ pc = "done"
  /\ flow.binding_rule = "1:3"
  /\ PvCalled

\* The address ends, whatever its case, with the blocked suffix '.top'.
Blocked(e) ==
  \E k \in 1..Len(e) : lower(SubSeq(e, k, Len(e))) = <<".", "t", "o", "p">>

\* The create responses that carry an address the caller can use.
Usable(input) ==
  {i \in 1..input.max_retries :
     /\ input.responses[i].kind = "ok"
     /\ input.responses[i].email # NoEmail
     /\ ~Blocked(input.responses[i].email)}

\* C36: get_email_address neither returns nor stores an address with the
\* blocked suffix; it sends at most max_retries create requests, one per
\* attempt, blocked addresses included; it returns the first usable
\* address it is given unless the last attempt allowed fails first, and
\* when it gets no usable address it raises and the current address stays
\* unset.
C36_BlockedNeverKept ==
  Returned("get_email_address") =>
    LET input == pure.input
        out == pure.out
    IN  /\ ~Blocked(out.email)
        /\ ~Blocked(out.value)
        /\ out.requests <= input.max_retries
        /\ out.result \in {"returned", "raised"}
        /\ out.result = "returned" =>
              /\ out.requests \in Usable(input)
              /\ \A i \in Usable(input) : out.requests <= i
              /\ out.value = input.responses[out.requests].email
              /\ out.email = out.value
        /\ out.result = "raised" =>
              /\ out.email = NoEmail
              /\ out.value = NoEmail
              /\ out.requests = input.max_retries
        /\ Usable(input) = {} => out.result = "raised"

\* A blocked address was handed out first and discarded, and the address
\* of the second request came back.
C36_Witness ==
  /\ Returned("get_email_address")
  /\ pure.out.result = "returned"
  /\ pure.out.requests = 2
  /\ pure.input.responses[1].kind = "ok"
  /\ Blocked(pure.input.responses[1].email)

\* The most accounts a run with the given binding rule registers.
MostAccounts(rule) == IF rule = "1:3" THEN 3 ELSE 1

C38_OtherRuleCancelsOnExit ==
  (RunEnded /\ flow.binding_rule = "other" /\ sms.api_key
     /\ world = Script({}))
    => /\ ~pv.set_complete
       /\ flow.i = 1
       /\ flow.result = "returned"
       /\ flow.accounts = <<1>>
       /\ Reqs("getNumber") # {}
       /\ StatusReqs(COMPLETE) = {}
       /\ StatusReqs(CANCEL) # {}

\* The client-level caller makes the call `names` on a service that
\* holds no activation id.
CallsWithout(names) ==
  /\ entry = "client"
  /\ sms.activation_id = None
  /\ Len(ops') = Len(ops) + 1
  /\ ops'[Len(ops')] \in names

\* The call raised the no-activation error and sent nothing.
RaisedUnsent == pure'.out = [ret |-> "no_activation_id", sent |-> 0] /\ log' = log

\* The call returned and sent nothing.
ReturnedUnsent == pure'.out = [ret |-> "ok", sent |-> 0] /\ log' = log

\* A caller closes the service.
Closes ==
  /\ entry \in {"client", "unit"}
  /\ Len(ops') = Len(ops) + 1
  /\ ops'[Len(ops')] = "close"

\* C39 as stated: on a service with no current activation set_status and
\* get_status, however they are called, and wait_for_verification_code
\* raise without sending a request; cancel, set_complete and close return
\* without sending one; close leaves activation id and phone number unset.
C39_NoActivationNoRequest ==
  [][/\ CallsWithout({"set_status", "set_status(activation_id)",
                      "get_status", "get_status(activation_id)"})
          => RaisedUnsent
     /\ CallsWithout({"wait_for_verification_code"})
          => wt'.result = "no_activation_id" /\ pc' = "idle" /\ log' = log
     /\ CallsWithout({"cancel", "set_complete", "close"}) => ReturnedUnsent
     /\ Closes => sms'.activation_id = None /\ sms'.phone_number = None]_vars

\* C39, amended: on a service with no current activation set_status and
\* get_status called without an activation id, and
\* wait_for_verification_code, raise without sending a request; cancel,
\* set_complete and close return without sending one, so a second close
\* sends no CANCEL; close leaves activation id and phone number unset.
C39_NoActivationNoRequestUnlessIdGiven ==
  [][/\ CallsWithout({"set_status", "get_status"}) => RaisedUnsent
     /\ CallsWithout({"wait_for_verification_code"})
          => wt'.result = "no_activation_id" /\ pc' = "idle" /\ log' = log
     /\ CallsWithout({"cancel", "set_complete", "close"}) => ReturnedUnsent
     /\ Closes => sms'.activation_id = None /\ sms'.phone_number = None]_vars

\* A number was leased, the first close canceled it and the second close
\* sent nothing.
C39_Witness ==
  /\ entry = "client"
  /\ ops = <<"get_number", "close", "close">>
  /\ Len(log) = 2
  /\ IsCancelReq(log[2])
  /\ pure.out = [ret |-> "ok", sent |-> 0]
  /\ sms.activation_id = None
  /\ sms.phone_number = None

====
